---- MODULE Spec2Model ----
(***************************************************************************)
(* German umlaut restoration (core/src/stages/german/driver.rs).           *)
(*                                                                         *)
(* A text is a sequence of characters; a character is a short string.      *)
(* "u:" stands for u-umlaut, "U:" for its capital, "sz" for sharp s,       *)
(* "NUL" for the character '\0' and "!" for any other non-letter.          *)
(***************************************************************************)
EXTENDS Integers, Sequences, FiniteSets, TLC

VARIABLES
    dict,          \* VALID_GERMAN_WORDS: the set of lines of the word list
    input,         \* substitute's argument
    pos,           \* index of the next item of input.chars().chain(once(INDICATOR))
    output,        \* substitute's output buffer
    state,         \* StateMachine: "Outside" or "Inside"
    word,          \* StateMachine::current_word().content()
    replacements,  \* StateMachine::current_word().replacements()
    transition,    \* the Transition the machine returned last
    pc,            \* position of the running call
    k,             \* find_valid_replacement: index of the combination being tried
    tested,        \* find_valid_replacement: candidates handed to is_valid so far
    emitted,       \* substitute's local `word`: the text pushed for the last word
    stack,         \* is_valid: the frames of the calls in progress, innermost last
    ret,           \* is_valid: the value the innermost finished call returned
    retWord,       \* is_valid: the argument of that finished call
    cache,         \* the SizedCache of is_valid, most recently used first
    calls,         \* log of the calls made since the outermost is_valid call began
    caller,        \* who runs: "substitute", "test" (is_valid called directly)
                   \* or "threads" (is_valid called on several threads)
    runs,          \* number of substitute calls begun in this process
    history,       \* the [input, output] of the substitute calls that returned
    reads,         \* the words substitute read from the machine in this call
    lock,          \* the Mutex around the cache: "free" or the thread holding it
    threads        \* per thread: the frames of its is_valid calls and its result

vars == <<dict, input, pos, output, state, word, replacements, transition, pc,
          k, tested, emitted, stack, ret, retWord, cache, calls, caller, runs,
          history, reads, lock, threads>>

threadVars == <<lock, threads>>

----------------------------------------------------------------------------
(* Bounds of the model. *)

MaxLen == 4        \* longest input text of substitute
MaxWordLen == 3    \* longest word handed to is_valid directly
MaxRuns == 2       \* substitute calls in one process

(* Program constants. *)

CacheCapacity == 1024

----------------------------------------------------------------------------
(* Characters. *)

INDICATOR == "NUL"

LowerLetters == {"u", "e", "s", "u:", "sz"}
UpperLetters == {"U", "E", "S", "U:"}
Letters == LowerLetters \cup UpperLetters

\* The characters input texts are drawn from.
InputChars == {"u", "e", "s", "U", "!", "NUL"}
\* The characters words handed to is_valid directly are drawn from.
WordChars == {"u", "s", "U", "u:", "U:", "sz", "!"}

Seqs(S, n) == UNION {[1..m -> S] : m \in 0..n}

\* char::to_lowercase
ToLower(c) ==
    CASE c = "U" -> "u"
      [] c = "E" -> "e"
      [] c = "S" -> "s"
      [] c = "U:" -> "u:"
      [] OTHER -> c

\* char::to_uppercase: the uppercase of sharp s is the two characters "SS"
ToUpper(c) ==
    CASE c = "u" -> <<"U">>
      [] c = "e" -> <<"E">>
      [] c = "s" -> <<"S">>
      [] c = "u:" -> <<"U:">>
      [] c = "sz" -> <<"S", "S">>
      [] OTHER -> <<c>>

\* str::to_lowercase
Lowercase(w) == [i \in 1..Len(w) |-> ToLower(w[i])]

\* common::titlecase: first character uppercased, the others lowercased
Titlecase(w) ==
    IF w = <<>> THEN <<>>
    ELSE ToUpper(w[1]) \o [i \in 1..(Len(w) - 1) |-> ToLower(w[i + 1])]

\* WordCasing::try_from
WordCasing(w) ==
    IF w = <<>> \/ \E i \in 1..Len(w) : w[i] \notin Letters THEN "Err"
    ELSE IF \A i \in 1..Len(w) : w[i] \in LowerLetters THEN "AllLowercase"
    ELSE IF w[1] \in UpperLetters /\ \A i \in 2..Len(w) : w[i] \in LowerLetters
         THEN "Titlecase"
    ELSE IF \A i \in 1..Len(w) : w[i] \in UpperLetters THEN "AllUppercase"
    ELSE "Mixed"

----------------------------------------------------------------------------
(* The dictionary and the dictionaries the model draws from. *)

Dict1 == { <<"u:", "u", "e">>, <<"u:", "u:">>, <<"u:", "s">>, <<"u">> }
Dict2 == { <<"u", "e", "u:">>, <<"u:", "u:">>, <<"U:", "s">>, <<"sz">>, <<"s", "u:">> }
Dict3 == { <<"U", "u:">>, <<"S", "s", "u">>, <<"u:">>, <<"U:">> }
Dicts == {Dict1, Dict2, Dict3}

\* The UTF-8 bytes of a character
Utf8(c) ==
    CASE c = "NUL" -> <<0>>
      [] c = "!" -> <<33>>
      [] c = "E" -> <<69>>
      [] c = "S" -> <<83>>
      [] c = "U" -> <<85>>
      [] c = "e" -> <<101>>
      [] c = "s" -> <<115>>
      [] c = "u" -> <<117>>
      [] c = "U:" -> <<195, 156>>
      [] c = "sz" -> <<195, 159>>
      [] c = "u:" -> <<195, 188>>

\* The bytes of a text (str::as_bytes)
RECURSIVE Bytes(_)
Bytes(w) == IF w = <<>> THEN <<>> ELSE Utf8(w[1]) \o Bytes(Tail(w))

Newline == 10

\* Ordering of byte strings (cmp on &[u8]): "Less", "Equal" or "Greater"
RECURSIVE Cmp(_, _)
Cmp(a, b) ==
    IF a = <<>> THEN (IF b = <<>> THEN "Equal" ELSE "Less")
    ELSE IF b = <<>> THEN "Greater"
    ELSE IF a[1] < b[1] THEN "Less"
    ELSE IF a[1] > b[1] THEN "Greater"
    ELSE Cmp(Tail(a), Tail(b))

\* The lines of the set `d` in ascending order, each but the last followed by
\* a newline: the text build.rs generates
RECURSIVE WordList(_)
WordList(d) ==
    IF d = {} THEN <<>>
    ELSE LET least == CHOOSE x \in d :
                          \A y \in d : Cmp(Bytes(x), Bytes(y)) \in {"Less", "Equal"}
         IN  IF d = {least} THEN Bytes(least)
             ELSE (Bytes(least) \o <<Newline>>) \o WordList(d \ {least})

\* The text of each word list of the model
Texts == [d \in Dicts |-> WordList(d)]

\* VALID_GERMAN_WORDS: the word list as a text
VALID_GERMAN_WORDS == Texts[dict]

\* util::iteration::binary_search_uneven, one probe of the range [low, high) of
\* byte offsets: the line enclosing the midpoint is compared with the needle and
\* the range narrowed to the line's boundaries
RECURSIVE Probe(_, _, _, _, _)
Probe(needle, haystack, sep, low, high) ==
    IF low >= high THEN FALSE
    ELSE LET mid == low + ((high - low) \div 2)
             \* offsets are 0-based, haystack[i + 1] is the byte at offset i
             before == {i \in 0..(mid - 1) : haystack[i + 1] = sep}
             after == {i \in mid..(Len(haystack) - 1) : haystack[i + 1] = sep}
             start == IF before = {} THEN 0
                      ELSE 1 + CHOOSE i \in before : \A j \in before : j <= i
             end == IF after = {} THEN Len(haystack)
                    ELSE CHOOSE i \in after : \A j \in after : i <= j
             order == Cmp(needle, SubSeq(haystack, start + 1, end))
         IN  CASE order = "Equal" -> TRUE
               [] order = "Less" -> Probe(needle, haystack, sep, low, start)
               [] order = "Greater" -> Probe(needle, haystack, sep, end + 1, high)

\* util::iteration::binary_search_uneven
BinarySearchUneven(needle, haystack, sep) ==
    Probe(needle, haystack, sep, 0, Len(haystack))

\* Faulty variant of ContainedInGlobalWordList: the lines are taken to be
\* separated by spaces
ContainedInSpaceSeparatedList(w) ==
    BinarySearchUneven(Bytes(w), VALID_GERMAN_WORDS, 32)

\* contained_in_global_word_list: is `w` a line of the word list
ContainedInGlobalWordList(w) ==
    BinarySearchUneven(Bytes(w), VALID_GERMAN_WORDS, Newline)

\* Can `s` be cut into one or more non-empty parts that are all dictionary words
RECURSIVE LaterPartsValid(_)
LaterPartsValid(s) ==
    \/ ContainedInGlobalWordList(s)
    \/ \E j \in 1..(Len(s) - 1) :
          /\ ContainedInGlobalWordList(SubSeq(s, 1, j))
          /\ LaterPartsValid(SubSeq(s, j + 1, Len(s)))

\* common::is_compound_word: `w` splits into at least 2 non-empty parts, the first
\* valid as it stands or lowercased, every later one valid as it stands
IsCompoundWord(w) ==
    \E i \in 1..(Len(w) - 1) :
        /\ \/ ContainedInGlobalWordList(SubSeq(w, 1, i))
           \/ ContainedInGlobalWordList(Lowercase(SubSeq(w, 1, i)))
        /\ LaterPartsValid(SubSeq(w, i + 1, Len(w)))

----------------------------------------------------------------------------
(* The segmenter (machine::StateMachine) and the word model (words). *)

\* The digraph table: the native letter two characters may become, "" if none
Digraph(a, b) ==
    CASE a = "u" /\ b = "e" -> "u:"
      [] a = "U" /\ b = "e" -> "U:"
      [] a = "s" /\ b = "s" -> "sz"
      [] OTHER -> ""

\* Transition of StateMachine::transition for the next character
MachineTransition(st, c) ==
    IF st = "Outside"
    THEN IF c \in Letters THEN "Entered" ELSE "External"
    ELSE IF c \in Letters THEN "Internal" ELSE "Exited"

\* The replacements of the current word once `c` is appended to content `w`:
\* a digraph ending at `c` is recorded unless it overlaps the last one recorded
Register(w, rs, c) ==
    LET n == Len(w) + 1
        free == rs = <<>> \/ rs[Len(rs)].end < n - 1
    IN  IF Len(w) >= 1 /\ free /\ Digraph(w[Len(w)], c) # ""
        THEN Append(rs, [start |-> n - 1, end |-> n,
                         native |-> Digraph(w[Len(w)], c)])
        ELSE rs

\* Replace::apply_replacements: every span of `rs` becomes its native letter
RECURSIVE ApplyReplacements(_, _)
ApplyReplacements(w, rs) ==
    IF rs = <<>> THEN w
    ELSE LET r == rs[Len(rs)]
         IN  ApplyReplacements(
                 SubSeq(w, 1, r.start - 1) \o <<r.native>> \o SubSeq(w, r.end + 1, Len(w)),
                 SubSeq(rs, 1, Len(rs) - 1))

RECURSIVE Pow2(_)
Pow2(n) == IF n = 0 THEN 1 ELSE 2 * Pow2(n - 1)

\* The members of `rs` the bitmask `m` selects, in their order in `rs`
RECURSIVE Combination(_, _)
Combination(rs, m) ==
    IF rs = <<>> THEN <<>>
    ELSE (IF m % 2 = 1 THEN <<rs[1]>> ELSE <<>>) \o Combination(Tail(rs), m \div 2)

\* util::iteration::power_set_without_empty: the non-empty subsets in a fixed order
PowerSetWithoutEmpty(rs) ==
    [m \in 1..(Pow2(Len(rs)) - 1) |-> Combination(rs, m)]

\* The candidate find_valid_replacement builds in its i-th iteration
Candidate(w, rs, i) == ApplyReplacements(w, PowerSetWithoutEmpty(rs)[i])

----------------------------------------------------------------------------
(* The SizedCache of is_valid: [key, val] entries, most recently used first. *)

CacheIndex(c, key) ==
    IF \E i \in 1..Len(c) : c[i].key = key
    THEN CHOOSE i \in 1..Len(c) : c[i].key = key
    ELSE 0

CacheWithout(c, key) == SelectSeq(c, LAMBDA e : e.key # key)

\* SizedCache::cache_get: a hit becomes the most recently used entry
CacheGet(c, key) == <<c[CacheIndex(c, key)]>> \o CacheWithout(c, key)

\* Faulty variant of CacheSet: nothing is evicted
CacheSetUnbounded(c, key, val) ==
    <<[key |-> key, val |-> val]>> \o CacheWithout(c, key)

\* SizedCache::cache_set: the least recently used entry is evicted when full
CacheSet(c, key, val) ==
    LET grown == <<[key |-> key, val |-> val]>> \o CacheWithout(c, key)
    IN  IF Len(grown) > CacheCapacity THEN SubSeq(grown, 1, CacheCapacity) ELSE grown

----------------------------------------------------------------------------
(* The body of is_valid: what a call computes when no cache entry answers it *)
(* or any of its recursive calls.                                            *)

RECURSIVE IsValid(_)
IsValid(w) ==
    LET casing == WordCasing(w)
    IN  CASE casing = "AllLowercase" -> ContainedInGlobalWordList(w)
          [] casing \in {"AllUppercase", "Mixed"} -> IsValid(Titlecase(w))
          [] casing = "Titlecase" ->
                 \/ ContainedInGlobalWordList(w)
                 \/ IsValid(Lowercase(w))
                 \/ IsCompoundWord(w)
          [] OTHER -> FALSE

----------------------------------------------------------------------------
(* Initial states: one process, its cache empty, in which either substitute  *)
(* is called on a text or is_valid is called directly on a word.             *)

B(b) == IF b THEN "true" ELSE "false"

Frame(w) == [w |-> w, phase |-> "call"]

\* Inputs with a word of three replacement opportunities
LongInputs == {<<"u", "e", "u", "e", "s", "s">>, <<"s", "s", "U", "e", "u", "e">>}

InitSubstitute ==
    /\ caller = "substitute"
    /\ input \in Seqs(InputChars, MaxLen) \cup LongInputs
    /\ pc = "loop"
    /\ stack = <<>>
    /\ runs = 1

InitIsValid ==
    /\ caller = "test"
    /\ input = <<>>
    /\ pc = "valid"
    /\ \E w \in Seqs(WordChars, MaxWordLen) : stack = <<Frame(w)>>
    /\ runs = 0

Init ==
    /\ dict \in Dicts
    /\ InitSubstitute \/ InitIsValid
    /\ pos = 1
    /\ output = <<>>
    /\ state = "Outside"
    /\ word = <<>>
    /\ replacements = <<>>
    /\ transition = "None"
    /\ k = 0
    /\ tested = <<>>
    /\ emitted = <<>>
    /\ ret = "none"
    /\ retWord = <<>>
    /\ cache = <<>>
    /\ calls = <<>>
    /\ history = <<>>
    /\ reads = <<>>
    /\ lock = "free"
    /\ threads = <<>>

----------------------------------------------------------------------------
(* German::substitute: one iteration of the loop over the characters.       *)

\* The character of the running iteration: the input's, then the INDICATOR
Char == IF pos <= Len(input) THEN input[pos] ELSE INDICATOR

InLoop == pc = "loop" /\ pos <= Len(input) + 1

isValidVars == <<stack, ret, retWord, cache, calls>>
searchVars == <<k, tested, emitted>>

StepExternal ==
    /\ InLoop
    /\ MachineTransition(state, Char) = "External"
    /\ transition' = "External"
    /\ output' = Append(output, Char)
    /\ pos' = pos + 1
    /\ UNCHANGED <<dict, input, state, word, replacements, pc, caller, history, reads, threadVars, runs>>
    /\ UNCHANGED <<searchVars, isValidVars>>

StepEntered ==
    /\ InLoop
    /\ MachineTransition(state, Char) = "Entered"
    /\ transition' = "Entered"
    /\ state' = "Inside"
    /\ word' = <<Char>>
    /\ replacements' = <<>>
    /\ pos' = pos + 1
    /\ UNCHANGED <<dict, input, output, pc, caller, history, reads, threadVars, runs>>
    /\ UNCHANGED <<searchVars, isValidVars>>

\* Faulty variant of StepInternal: the machine's word is read while it is open
StepInternalReads ==
    /\ InLoop
    /\ MachineTransition(state, Char) = "Internal"
    /\ transition' = "Internal"
    /\ word' = Append(word, Char)
    /\ replacements' = Register(word, replacements, Char)
    /\ reads' = Append(reads, word')
    /\ pos' = pos + 1
    /\ UNCHANGED <<dict, input, output, state, pc, caller, history, threadVars, runs>>
    /\ UNCHANGED <<searchVars, isValidVars>>

StepInternal ==
    /\ InLoop
    /\ MachineTransition(state, Char) = "Internal"
    /\ transition' = "Internal"
    /\ word' = Append(word, Char)
    /\ replacements' = Register(word, replacements, Char)
    /\ pos' = pos + 1
    /\ UNCHANGED <<dict, input, output, state, pc, caller, history, reads, threadVars, runs>>
    /\ UNCHANGED <<searchVars, isValidVars>>

\* Exited: find_valid_replacement is entered with the machine's current word
StepExited ==
    /\ InLoop
    /\ MachineTransition(state, Char) = "Exited"
    /\ transition' = "Exited"
    /\ state' = "Outside"
    /\ pc' = "search"
    /\ k' = 1
    /\ tested' = <<>>
    /\ reads' = Append(reads, word)
    /\ UNCHANGED <<dict, input, pos, output, word, replacements, caller, history,
                   threadVars, runs, emitted>>
    /\ UNCHANGED isValidVars

\* Faulty variant of SearchTry: the search starts with the empty combination,
\* the unmodified word
SearchTryFromOriginal ==
    /\ pc = "search"
    /\ k <= Len(PowerSetWithoutEmpty(replacements))
    /\ LET candidate == IF k = 1 THEN word ELSE Candidate(word, replacements, k - 1)
       IN  /\ tested' = Append(tested, candidate)
           /\ stack' = <<Frame(candidate)>>
    /\ calls' = <<>>
    /\ pc' = "valid"
    /\ UNCHANGED <<dict, input, pos, output, state, word, replacements,
                   transition, k, emitted, ret, retWord, cache, caller, runs,
                   history, reads, threadVars>>

\* find_valid_replacement: the next combination is applied and is_valid called
SearchTry ==
    /\ pc = "search"
    /\ k <= Len(PowerSetWithoutEmpty(replacements))
    /\ LET candidate == Candidate(word, replacements, k)
       IN  /\ tested' = Append(tested, candidate)
           /\ stack' = <<Frame(candidate)>>
    /\ calls' = <<>>
    /\ pc' = "valid"
    /\ UNCHANGED <<dict, input, pos, output, state, word, replacements,
                   transition, k, emitted, ret, retWord, cache, caller, history, reads, threadVars, runs>>

\* Faulty variant of SearchExhausted: the character that caused the exit is
\* pushed before the word it closes
SearchExhaustedCharFirst ==
    /\ pc = "search"
    /\ k > Len(PowerSetWithoutEmpty(replacements))
    /\ emitted' = word
    /\ output' = (output \o <<Char>>) \o word
    /\ pos' = pos + 1
    /\ pc' = "loop"
    /\ UNCHANGED <<dict, input, state, word, replacements, transition, caller, history, reads, threadVars, runs>>
    /\ UNCHANGED <<k, tested, isValidVars>>

\* Faulty variant of SearchExhausted: None is not replaced by the original, the
\* word is dropped
SearchExhaustedNoFallback ==
    /\ pc = "search"
    /\ k > Len(PowerSetWithoutEmpty(replacements))
    /\ emitted' = <<>>
    /\ output' = Append(output, Char)
    /\ pos' = pos + 1
    /\ pc' = "loop"
    /\ UNCHANGED <<dict, input, state, word, replacements, transition, caller, history, reads, threadVars, runs>>
    /\ UNCHANGED <<k, tested, isValidVars>>

\* find_valid_replacement returns None: the original word and the character
\* that caused the exit are pushed
SearchExhausted ==
    /\ pc = "search"
    /\ k > Len(PowerSetWithoutEmpty(replacements))
    /\ emitted' = word
    /\ output' = (output \o word) \o <<Char>>
    /\ pos' = pos + 1
    /\ pc' = "loop"
    /\ UNCHANGED <<dict, input, state, word, replacements, transition, caller, history, reads, threadVars, runs>>
    /\ UNCHANGED <<k, tested, isValidVars>>

\* Faulty variant of CandidateValid: the form is_valid normalised the candidate
\* to is pushed instead of the candidate
CandidateValidNormalised ==
    /\ pc = "valid" /\ caller = "substitute"
    /\ stack = <<>> /\ ret = "true"
    /\ emitted' = Titlecase(tested[Len(tested)])
    /\ output' = (output \o Titlecase(tested[Len(tested)])) \o <<Char>>
    /\ pos' = pos + 1
    /\ pc' = "loop"
    /\ ret' = "none"
    /\ UNCHANGED <<dict, input, state, word, replacements, transition, caller, history, reads, threadVars, runs,
                   k, tested, stack, retWord, cache, calls>>

\* Faulty variant of CandidateValid: the character that caused the exit is not
\* added back after an accepted candidate
CandidateValidCharLost ==
    /\ pc = "valid" /\ caller = "substitute"
    /\ stack = <<>> /\ ret = "true"
    /\ emitted' = tested[Len(tested)]
    /\ output' = output \o tested[Len(tested)]
    /\ pos' = pos + 1
    /\ pc' = "loop"
    /\ ret' = "none"
    /\ UNCHANGED <<dict, input, state, word, replacements, transition, caller, history, reads, threadVars, runs,
                   k, tested, stack, retWord, cache, calls>>

\* is_valid returned true: find_valid_replacement returns Some(candidate), which
\* is pushed with the character that caused the exit
CandidateValid ==
    /\ pc = "valid" /\ caller = "substitute"
    /\ stack = <<>> /\ ret = "true"
    /\ emitted' = tested[Len(tested)]
    /\ output' = (output \o tested[Len(tested)]) \o <<Char>>
    /\ pos' = pos + 1
    /\ pc' = "loop"
    /\ ret' = "none"
    /\ UNCHANGED <<dict, input, state, word, replacements, transition, caller, history, reads, threadVars, runs,
                   k, tested, stack, retWord, cache, calls>>

\* Faulty variant of CandidateInvalid: the search gives up after the first
\* invalid candidate
CandidateInvalidGiveUp ==
    /\ pc = "valid" /\ caller = "substitute"
    /\ stack = <<>> /\ ret = "false"
    /\ k' = Len(PowerSetWithoutEmpty(replacements)) + 1
    /\ pc' = "search"
    /\ ret' = "none"
    /\ UNCHANGED <<dict, input, pos, output, state, word, replacements, transition,
                   caller, history, reads, threadVars, runs, tested, emitted, stack, retWord, cache, calls>>

\* is_valid returned false: the loop of find_valid_replacement goes on
CandidateInvalid ==
    /\ pc = "valid" /\ caller = "substitute"
    /\ stack = <<>> /\ ret = "false"
    /\ k' = k + 1
    /\ pc' = "search"
    /\ ret' = "none"
    /\ UNCHANGED <<dict, input, pos, output, state, word, replacements, transition,
                   caller, history, reads, threadVars, runs, tested, emitted, stack, retWord, cache, calls>>

\* Faulty variant of Finish: the trailing INDICATOR is not popped
FinishKeepIndicator ==
    /\ pc = "loop"
    /\ pos = Len(input) + 2
    /\ output' = output
    /\ pc' = "done"
    /\ history' = Append(history, [input |-> input, output |-> output'])
    /\ UNCHANGED <<dict, input, pos, state, word, replacements, transition, caller,
                   reads, threadVars, runs>>
    /\ UNCHANGED <<searchVars, isValidVars>>

\* After the loop: the last character is popped; debug_assert!(c == Some(INDICATOR))
\* panics in a build with debug assertions when it does not hold
Finish ==
    /\ pc = "loop"
    /\ pos = Len(input) + 2
    /\ output' = IF output = <<>> THEN <<>> ELSE SubSeq(output, 1, Len(output) - 1)
    /\ \E outcome \in (IF output # <<>> /\ output[Len(output)] = INDICATOR
                       THEN {"done"} ELSE {"done", "panicked"}) :
          /\ pc' = outcome
          /\ history' = IF outcome = "done"
                        THEN Append(history, [input |-> input, output |-> output'])
                        ELSE history
    /\ UNCHANGED <<dict, input, pos, state, word, replacements, transition, caller,
                   reads, threadVars, runs>>
    /\ UNCHANGED <<searchVars, isValidVars>>

\* The process calls substitute again on `text`: a new machine, a new output
\* buffer; the dictionary and the history of the process stay
CallAgain(text) ==
    /\ pc = "done" /\ caller = "substitute"
    /\ runs < MaxRuns
    /\ input' = text
    /\ runs' = runs + 1
    /\ pos' = 1
    /\ output' = <<>>
    /\ state' = "Outside"
    /\ word' = <<>>
    /\ replacements' = <<>>
    /\ transition' = "None"
    /\ pc' = "loop"
    /\ k' = 0
    /\ tested' = <<>>
    /\ emitted' = <<>>
    /\ reads' = <<>>
    /\ UNCHANGED <<dict, caller, history, threadVars>>

\* The process calls substitute again, on the text the last call changed its
\* input to; the cache is the process's and is kept
Resubmit ==
    /\ output # input
    /\ CallAgain(output)
    /\ UNCHANGED isValidVars

\* The process calls substitute again on the same input once the cache is in
\* use, after other calls whose cache_set evicted all but the `kept` most
\* recently used entries of the cache
Repeat ==
    /\ cache # <<>>
    /\ CallAgain(input)
    /\ \E kept \in 0..Len(cache) : cache' = SubSeq(cache, 1, kept)
    /\ UNCHANGED <<stack, ret, retWord, calls>>

----------------------------------------------------------------------------
(* is_valid, as the cached macro expands it: the cache is looked up under   *)
(* the argument; on a miss the body runs and its result is stored under the *)
(* argument. The recursive calls of the body are calls of the cached        *)
(* function.                                                                *)

Top == stack[Len(stack)]

Event(op, w) == [op |-> op, w |-> w]

\* A call has just been made and the cache not yet looked up
Called == pc = "valid" /\ stack # <<>> /\ Top.phase = "call" /\ ret = "none"

\* The cache holds no entry for the argument: the body runs
Missed == Called /\ CacheIndex(cache, Top.w) = 0

\* The callee of the innermost unfinished call has returned
Resumed(phase) == pc = "valid" /\ stack # <<>> /\ Top.phase = phase /\ ret # "none"

\* Faulty variant of Return: the result is stored under the lowercased argument
ReturnStoredLowercased(val) ==
    /\ stack' = SubSeq(stack, 1, Len(stack) - 1)
    /\ ret' = val
    /\ retWord' = Top.w
    /\ cache' = CacheSet(cache, Lowercase(Top.w), val)

\* The innermost call returns `val`, which is stored under its argument
Return(val) ==
    /\ stack' = SubSeq(stack, 1, Len(stack) - 1)
    /\ ret' = val
    /\ retWord' = Top.w
    /\ cache' = CacheSet(cache, Top.w, val)

\* The innermost call calls is_valid(w) and waits for it in `phase`
Recurse(phase, w) ==
    /\ stack' = SubSeq(stack, 1, Len(stack) - 1)
                    \o <<[w |-> Top.w, phase |-> phase], Frame(w)>>
    /\ ret' = "none"
    /\ UNCHANGED <<retWord, cache>>

substituteVars == <<dict, input, pos, output, state, word, replacements, transition,
                    k, tested, emitted, caller, runs, history, reads, threadVars>>

\* The cache holds the argument: its value is returned, the body does not run
ValidCached ==
    /\ Called
    /\ CacheIndex(cache, Top.w) # 0
    /\ stack' = SubSeq(stack, 1, Len(stack) - 1)
    /\ ret' = cache[CacheIndex(cache, Top.w)].val
    /\ retWord' = Top.w
    /\ cache' = CacheGet(cache, Top.w)
    /\ calls' = Append(calls, Event("is_valid", Top.w))
    /\ UNCHANGED <<pc, substituteVars>>

\* Faulty variant of ValidUnclassified: a word whose casing cannot be classified
\* is looked up in the dictionary
ValidUnclassifiedLookup ==
    /\ Missed
    /\ WordCasing(Top.w) = "Err"
    /\ Return(B(ContainedInGlobalWordList(Top.w)))
    /\ calls' = calls \o <<Event("is_valid", Top.w), Event("predicate", Top.w)>>
    /\ UNCHANGED <<pc, substituteVars>>

\* Err(_) => false
ValidUnclassified ==
    /\ Missed
    /\ WordCasing(Top.w) = "Err"
    /\ Return("false")
    /\ calls' = Append(calls, Event("is_valid", Top.w))
    /\ UNCHANGED <<pc, substituteVars>>

\* Faulty variant of ValidAllLowercase: a lowercase word is also accepted as a
\* compound word
ValidAllLowercaseCompound ==
    /\ Missed
    /\ WordCasing(Top.w) = "AllLowercase"
    /\ Return(B(ContainedInGlobalWordList(Top.w) \/ IsCompoundWord(Top.w)))
    /\ calls' = calls \o <<Event("is_valid", Top.w), Event("predicate", Top.w)>>
    /\ UNCHANGED <<pc, substituteVars>>

\* Ok(AllLowercase) => predicate(word)
ValidAllLowercase ==
    /\ Missed
    /\ WordCasing(Top.w) = "AllLowercase"
    /\ Return(B(ContainedInGlobalWordList(Top.w)))
    /\ calls' = calls \o <<Event("is_valid", Top.w), Event("predicate", Top.w)>>
    /\ UNCHANGED <<pc, substituteVars>>

\* Ok(AllUppercase | Mixed): the word is titlecased and is_valid called on the
\* result; the debug_assert! on the casing of the result panics in a build with
\* debug assertions when it does not hold
ValidNormalize ==
    /\ Missed
    /\ WordCasing(Top.w) \in {"AllUppercase", "Mixed"}
    /\ LET tc == Titlecase(Top.w)
       IN  \E outcome \in (IF WordCasing(tc) = "Titlecase"
                           THEN {"valid"} ELSE {"valid", "panicked"}) :
               /\ pc' = outcome
               /\ Recurse("title", tc)
    /\ calls' = Append(calls, Event("is_valid", Top.w))
    /\ UNCHANGED substituteVars

\* is_valid(&tc, predicate) returned: its value is the value of the call
ValidNormalized ==
    /\ Resumed("title")
    /\ Return(ret)
    /\ UNCHANGED <<pc, calls, substituteVars>>

\* Ok(Titlecase): predicate(word) is true
ValidTitlecaseFound ==
    /\ Missed
    /\ WordCasing(Top.w) = "Titlecase"
    /\ ContainedInGlobalWordList(Top.w)
    /\ Return("true")
    /\ calls' = calls \o <<Event("is_valid", Top.w), Event("predicate", Top.w)>>
    /\ UNCHANGED <<pc, substituteVars>>

\* Ok(Titlecase): predicate(word) is false, is_valid(&word.to_lowercase()) is called
ValidTitlecaseLower ==
    /\ Missed
    /\ WordCasing(Top.w) = "Titlecase"
    /\ ~ContainedInGlobalWordList(Top.w)
    /\ Recurse("lower", Lowercase(Top.w))
    /\ calls' = calls \o <<Event("is_valid", Top.w), Event("predicate", Top.w)>>
    /\ UNCHANGED <<pc, substituteVars>>

\* Ok(Titlecase): the lowercased form is valid
ValidTitlecaseLowered ==
    /\ Resumed("lower")
    /\ ret = "true"
    /\ Return("true")
    /\ UNCHANGED <<pc, calls, substituteVars>>

\* Faulty variant of ValidTitlecaseCompound: the lowercased word is handed to
\* is_compound_word
ValidTitlecaseCompoundLowercased ==
    /\ Resumed("lower")
    /\ ret = "false"
    /\ Return(B(IsCompoundWord(Lowercase(Top.w))))
    /\ calls' = Append(calls, Event("is_compound_word", Top.w))
    /\ UNCHANGED <<pc, substituteVars>>

\* Faulty variant of ValidTitlecaseCompound: the compound check is left out
ValidTitlecaseNoCompound ==
    /\ Resumed("lower")
    /\ ret = "false"
    /\ Return("false")
    /\ UNCHANGED <<pc, calls, substituteVars>>

\* Ok(Titlecase): neither worked, is_compound_word(word, predicate) decides
ValidTitlecaseCompound ==
    /\ Resumed("lower")
    /\ ret = "false"
    /\ Return(B(IsCompoundWord(Top.w)))
    /\ calls' = Append(calls, Event("is_compound_word", Top.w))
    /\ UNCHANGED <<pc, substituteVars>>

\* The direct call of is_valid returns to the test that made it
TestReturn ==
    /\ pc = "valid" /\ caller = "test"
    /\ stack = <<>> /\ ret # "none"
    /\ pc' = "done"
    /\ UNCHANGED <<isValidVars, substituteVars>>

----------------------------------------------------------------------------

Next ==
    \/ StepExternal
    \/ StepEntered
    \/ StepInternal
    \/ StepExited
    \/ SearchTry
    \/ SearchExhausted
    \/ CandidateValid
    \/ CandidateInvalid
    \/ Finish
    \/ Resubmit
    \/ Repeat
    \/ ValidCached
    \/ ValidUnclassified
    \/ ValidAllLowercase
    \/ ValidNormalize
    \/ ValidNormalized
    \/ ValidTitlecaseFound
    \/ ValidTitlecaseLower
    \/ ValidTitlecaseLowered
    \/ ValidTitlecaseCompound
    \/ TestReturn

Spec == Init /\ [][Next]_vars

----------------------------------------------------------------------------
(* is_valid called on several threads of the process. The cache is a static  *)
(* behind a Mutex: a call locks it, looks its argument up and unlocks it; on *)
(* a miss the body runs without the lock, and the call locks the cache again *)
(* to store the result. Each thread has its own stack of calls.              *)

Threads == {"t1", "t2"}

ThreadWords == {<<"U:", "S">>, <<"u:", "s">>, <<"sz", "U">>, <<"S", "s", "u">>}

\* A call of is_valid(w) on a thread: phase "call" (made), "get" (cache locked
\* for the lookup), "body", "title" and "lower" (waiting for a recursive call),
\* "set" (result `val` computed) and "store" (cache locked for the store)
ThreadFrame(w) == [w |-> w, phase |-> "call", val |-> "none"]

ThreadStart(w) ==
    [arg |-> w, stack |-> <<ThreadFrame(w)>>, ret |-> "none", result |-> "none"]

InitThreads ==
    /\ dict \in Dicts
    /\ caller = "threads"
    /\ input = <<>>
    /\ pos = 1
    /\ output = <<>>
    /\ state = "Outside"
    /\ word = <<>>
    /\ replacements = <<>>
    /\ transition = "None"
    /\ pc = "threads"
    /\ k = 0
    /\ tested = <<>>
    /\ emitted = <<>>
    /\ stack = <<>>
    /\ ret = "none"
    /\ retWord = <<>>
    /\ cache = <<>>
    /\ calls = <<>>
    /\ runs = 0
    /\ history = <<>>
    /\ reads = <<>>
    /\ lock = "free"
    /\ threads \in [Threads -> {ThreadStart(w) : w \in ThreadWords}]

\* What the threads leave alone
sequentialVars == <<dict, input, pos, output, state, word, replacements, transition,
                    pc, k, tested, emitted, stack, ret, retWord, calls, caller, runs,
                    history, reads>>

ThreadTop(t) == threads[t].stack[Len(threads[t].stack)]

\* The innermost call of thread t is in one of `phases`
ThreadAt(t, phases) ==
    /\ caller = "threads"
    /\ threads[t].stack # <<>>
    /\ ThreadTop(t).phase \in phases

\* Thread t with the frame of its innermost call replaced by `frame`
WithTop(t, frame) ==
    [threads[t] EXCEPT !.stack = SubSeq(@, 1, Len(@) - 1) \o <<frame>>, !.ret = "none"]

\* Thread t after its innermost call returned `val`
ThreadReturned(t, val) ==
    [threads[t] EXCEPT !.stack = SubSeq(@, 1, Len(@) - 1),
                       !.ret = val,
                       !.result = IF Len(threads[t].stack) = 1 THEN val ELSE @]

\* Faulty variant of ThreadLock: the cache is entered without waiting for the
\* Mutex
ThreadLockUnguarded(t) ==
    /\ ThreadAt(t, {"call", "set"})
    /\ lock' = t
    /\ threads' = [threads EXCEPT ![t] = WithTop(t, [ThreadTop(t) EXCEPT
                       !.phase = IF @ = "call" THEN "get" ELSE "store"])]
    /\ UNCHANGED <<cache, sequentialVars>>

\* lock().unwrap(): the thread waits until the Mutex is free and takes it
ThreadLock(t) ==
    /\ ThreadAt(t, {"call", "set"})
    /\ lock = "free"
    /\ lock' = t
    /\ threads' = [threads EXCEPT ![t] = WithTop(t, [ThreadTop(t) EXCEPT
                       !.phase = IF @ = "call" THEN "get" ELSE "store"])]
    /\ UNCHANGED <<cache, sequentialVars>>

\* cache_get finds the argument: its value is returned and the Mutex released
ThreadHit(t) ==
    /\ ThreadAt(t, {"get"})
    /\ CacheIndex(cache, ThreadTop(t).w) # 0
    /\ cache' = CacheGet(cache, ThreadTop(t).w)
    /\ lock' = "free"
    /\ threads' = [threads EXCEPT
                       ![t] = ThreadReturned(t, cache[CacheIndex(cache, ThreadTop(t).w)].val)]
    /\ UNCHANGED sequentialVars

\* cache_get finds nothing: the Mutex is released and the body runs
ThreadMiss(t) ==
    /\ ThreadAt(t, {"get"})
    /\ CacheIndex(cache, ThreadTop(t).w) = 0
    /\ lock' = "free"
    /\ threads' = [threads EXCEPT ![t] = WithTop(t, [ThreadTop(t) EXCEPT !.phase = "body"])]
    /\ UNCHANGED <<cache, sequentialVars>>

\* The body answers without a recursive call: Err, AllLowercase, or Titlecase
\* with the word in the list
ThreadAnswer(t) ==
    /\ ThreadAt(t, {"body"})
    /\ LET w == ThreadTop(t).w
           casing == WordCasing(w)
       IN  /\ \/ casing \in {"Err", "AllLowercase"}
               \/ (casing = "Titlecase" /\ ContainedInGlobalWordList(w))
           /\ threads' = [threads EXCEPT ![t] = WithTop(t, [ThreadTop(t) EXCEPT
                  !.phase = "set",
                  !.val = IF casing = "Err" THEN "false"
                          ELSE B(ContainedInGlobalWordList(w))])]
    /\ UNCHANGED <<cache, lock, sequentialVars>>

\* The body calls is_valid: on the titlecased word (AllUppercase | Mixed, where
\* the debug_assert! may panic) or on the lowercased word (Titlecase, not in
\* the list)
ThreadRecurse(t) ==
    /\ ThreadAt(t, {"body"})
    /\ LET w == ThreadTop(t).w
           casing == WordCasing(w)
           tc == Titlecase(w)
       IN  \/ /\ casing \in {"AllUppercase", "Mixed"}
              /\ \E outcome \in (IF WordCasing(tc) = "Titlecase"
                                  THEN {"valid"} ELSE {"valid", "panicked"}) :
                     threads' = [threads EXCEPT ![t] =
                         IF outcome = "panicked"
                         THEN [@ EXCEPT !.stack = <<>>, !.result = "panicked"]
                         ELSE [@ EXCEPT !.stack =
                                  SubSeq(@, 1, Len(@) - 1)
                                      \o <<[ThreadTop(t) EXCEPT !.phase = "title"],
                                           ThreadFrame(tc)>>]]
           \/ /\ casing = "Titlecase" /\ ~ContainedInGlobalWordList(w)
              /\ threads' = [threads EXCEPT ![t].stack =
                     SubSeq(@, 1, Len(@) - 1)
                         \o <<[ThreadTop(t) EXCEPT !.phase = "lower"],
                              ThreadFrame(Lowercase(w))>>]
    /\ UNCHANGED <<cache, lock, sequentialVars>>

\* The recursive call returned: the value of the call is known
ThreadResume(t) ==
    /\ ThreadAt(t, {"title", "lower"})
    /\ threads[t].ret # "none"
    /\ threads' = [threads EXCEPT ![t] = WithTop(t, [ThreadTop(t) EXCEPT
           !.phase = "set",
           !.val = IF ThreadTop(t).phase = "title" \/ threads[t].ret = "true"
                   THEN threads[t].ret
                   ELSE B(IsCompoundWord(ThreadTop(t).w))])]
    /\ UNCHANGED <<cache, lock, sequentialVars>>

\* cache_set stores the result under the argument, the Mutex is released and
\* the call returns
ThreadStore(t) ==
    /\ ThreadAt(t, {"store"})
    /\ cache' = CacheSet(cache, ThreadTop(t).w, ThreadTop(t).val)
    /\ lock' = "free"
    /\ threads' = [threads EXCEPT ![t] = ThreadReturned(t, ThreadTop(t).val)]
    /\ UNCHANGED sequentialVars

NextThreads ==
    \/ \E t \in Threads : ThreadLock(t)
    \/ \E t \in Threads : ThreadHit(t)
    \/ \E t \in Threads : ThreadMiss(t)
    \/ \E t \in Threads : ThreadAnswer(t)
    \/ \E t \in Threads : ThreadRecurse(t)
    \/ \E t \in Threads : ThreadResume(t)
    \/ \E t \in Threads : ThreadStore(t)

SpecThreads == InitThreads /\ [][NextThreads]_vars

----------------------------------------------------------------------------
(* Properties of substitute.                                                 *)

SubstituteDone == caller = "substitute" /\ pc = "done"

\* The word whose Exited transition the loop has just finished handling
WordEmitted == caller = "substitute" /\ pc = "loop" /\ transition = "Exited"

NonWord(s) == SelectSeq(s, LAMBDA c : c \notin Letters)

\* The items the loop iterates over: the input, then the INDICATOR
Chain == Append(input, INDICATOR)

\* A text with every maximal run of letters collapsed into the mark "W"
RECURSIVE Shape(_)
Shape(s) ==
    IF s = <<>> THEN <<>>
    ELSE IF s[1] \notin Letters THEN <<s[1]>> \o Shape(Tail(s))
    ELSE IF Len(s) >= 2 /\ s[2] \in Letters THEN Shape(Tail(s))
    ELSE <<"W">> \o Shape(Tail(s))

\* No two adjacent characters of the text form a digraph
NoDigraph(s) == \A i \in 1..(Len(s) - 1) : Digraph(s[i], s[i + 1]) = ""

NumberOfCombinations == Len(PowerSetWithoutEmpty(replacements))

\* C1: non-word characters are copied unchanged: at every point of the loop the
\* non-word characters of the output are those of the items consumed so far, same
\* multiplicity, same order; a character whose transition is External is the last
\* one pushed, the character that caused an Exited transition stands right after
\* the text emitted for the word; and in the result every non-word character stands
\* where it stood in the input relative to the words (the character closing a
\* word right after the text emitted for that word).
C1_NonWordPassthrough ==
    /\ caller = "substitute" /\ pc \in {"loop", "search", "valid"}
         => NonWord(output) = NonWord(SubSeq(Chain, 1, pos - 1))
    /\ caller = "substitute" /\ pc = "loop" /\ transition = "External"
         => output # <<>> /\ output[Len(output)] = Chain[pos - 1]
    /\ WordEmitted
         => /\ Len(output) >= Len(emitted) + 1
            /\ SubSeq(output, Len(output) - Len(emitted), Len(output))
                   = Append(emitted, Chain[pos - 1])
    /\ SubstituteDone
         => NonWord(output) = NonWord(input) /\ Shape(output) = Shape(input)

\* A result with a changed word and non-word characters before and after a word
C1_Witness ==
    /\ SubstituteDone
    /\ output # input
    /\ Len(NonWord(input)) >= 2
    /\ input[1] \notin Letters
    /\ \E i \in 1..Len(input) : input[i] \in Letters

\* C2: the text emitted for a completed word is the first candidate, in the order
\* of the combinations, that is_valid accepts; the candidates tested are exactly
\* those up to and including it; when is_valid accepts none, all were tested and
\* the original content is emitted.
C2_FirstValidCandidate ==
    WordEmitted =>
        LET valid == {i \in 1..NumberOfCombinations :
                          IsValid(Candidate(word, replacements, i))}
        IN  /\ \A i \in 1..Len(tested) : tested[i] = Candidate(word, replacements, i)
            /\ IF valid = {}
               THEN emitted = word /\ Len(tested) = NumberOfCombinations
               ELSE \E i \in valid :
                        /\ \A j \in valid : i <= j
                        /\ emitted = Candidate(word, replacements, i)
                        /\ Len(tested) = i

\* A word with several valid candidates, of which the first one tried is not the
\* first of the enumeration, has been emitted
C2_Witness ==
    /\ WordEmitted
    /\ NumberOfCombinations = 3
    /\ Len(tested) = 2
    /\ emitted = tested[2]
    /\ IsValid(Candidate(word, replacements, 3))

\* C3: a word without replacement opportunity is emitted as it is, no candidate
\* having been tested; a text in which no word contains a digraph is returned
\* unchanged.
C3_FallbackSafety ==
    /\ WordEmitted /\ (replacements = <<>> \/ NoDigraph(word))
         => replacements = <<>> /\ tested = <<>> /\ emitted = word
    /\ SubstituteDone /\ NoDigraph(input) => output = input

\* A text of several words and non-word characters without digraph was returned
C3_Witness ==
    /\ SubstituteDone
    /\ NoDigraph(input)
    /\ Len(input) >= 3
    /\ input[1] \in Letters
    /\ Len(NonWord(input)) >= 1
    /\ input[Len(input)] \in Letters

\* The characters of `emitted` are those of `word` but for the spans of the
\* replacements whose indices are in S, each of which became its native letter
OnlySpansChanged(S) ==
    LET inside(p) == \E i \in S : replacements[i].start <= p /\ p <= replacements[i].end
        before(p) == Cardinality({i \in S : replacements[i].end < p})
    IN  /\ Len(emitted) = Len(word) - Cardinality(S)
        /\ \A p \in 1..Len(word) : ~inside(p) => emitted[p - before(p)] = word[p]
        /\ \A i \in S : emitted[replacements[i].start - before(replacements[i].start)]
                            = replacements[i].native

\* C4: in the text emitted for a word only the characters inside the spans of one
\* subset of its replacements differ from the original; every other character is
\* the original one, case included.
C4_UntouchedLetters ==
    WordEmitted => \E S \in SUBSET (1..Len(replacements)) : OnlySpansChanged(S)

\* A candidate that is valid only through its titlecased form was emitted as it
\* is, its uppercase letters outside the span kept
C4_Witness ==
    /\ WordEmitted
    /\ emitted # word
    /\ WordCasing(emitted) \in {"AllUppercase", "Mixed"}
    /\ emitted # Titlecase(emitted)

AllLetters(s) == \A i \in 1..Len(s) : s[i] \in Letters

\* The input of the call that has returned is the text the call before it
\* changed its input to
Resubmitted ==
    /\ Len(history) >= 2
    /\ history[Len(history) - 1].output = input
    /\ history[Len(history) - 1].input # input

\* C5 as claimed: when substitute changed a word w to w', substitute applied to
\* w' returns w' unchanged, whatever digraphs w' still contains.
C5_IdempotentOnSuccess ==
    SubstituteDone /\ Resubmitted /\ AllLetters(input) => output = input

\* C5 as amended: when substitute changed a text to w' and w' contains no digraph
\* any more, substitute applied to w' returns w' unchanged.
C5_IdempotentWithoutDigraph ==
    SubstituteDone /\ Resubmitted /\ NoDigraph(input) => output = input

\* A changed word without remaining digraph was submitted again and returned
C5_Witness ==
    /\ SubstituteDone
    /\ Resubmitted
    /\ input # <<>> /\ AllLetters(input) /\ NoDigraph(input)
    /\ output = input

\* C6: substitute returns Ok for every input: no call of it ends in a panic.
C6_SubstituteReturnsOk == caller = "substitute" => pc # "panicked"

Count(s, c) == Len(SelectSeq(s, LAMBDA x : x = c))

\* C7: when the loop over the input and the INDICATOR has ended, the machine is
\* outside a word and the last character of the output is the INDICATOR pushed
\* for the synthetic item, so that the assertion after the loop holds; the pop
\* removes that one character, and the result holds as many '\0' as the input.
C7_SentinelHandling ==
    /\ caller = "substitute" /\ pc = "loop" /\ pos = Len(input) + 2
         => /\ state = "Outside"
            /\ output # <<>> /\ output[Len(output)] = INDICATOR
            /\ Count(output, INDICATOR) = Count(input, INDICATOR) + 1
    /\ caller = "substitute" /\ pc = "panicked" => pos <= Len(input) + 1
    /\ SubstituteDone => Count(output, INDICATOR) = Count(input, INDICATOR)

\* A text holding '\0' and ending in a word that was replaced has been returned
C7_Witness ==
    /\ SubstituteDone
    /\ Count(input, INDICATOR) >= 1
    /\ input[Len(input)] \in Letters
    /\ output # input

----------------------------------------------------------------------------
(* Properties of is_valid.                                                   *)

\* A call of is_valid has just returned
Returned == ret # "none"

\* The direct call of is_valid on retWord has returned to the test
TestDone == caller = "test" /\ pc = "done"

\* C8: a Titlecase word is valid iff it is in the dictionary, or its lowercased
\* form is valid, or it is a compound word; the checks run in this order and the
\* later ones are skipped once one is true.
C8_TitlecaseValidity ==
    LET w == retWord
        lw == Lowercase(retWord)
    IN  /\ Returned /\ WordCasing(w) = "Titlecase"
             => ret = B(\/ ContainedInGlobalWordList(w)
                        \/ IsValid(lw)
                        \/ IsCompoundWord(w))
        /\ TestDone /\ WordCasing(w) = "Titlecase"
             => calls =
                  IF ContainedInGlobalWordList(w)
                  THEN <<Event("is_valid", w), Event("predicate", w)>>
                  ELSE IF ContainedInGlobalWordList(lw)
                  THEN <<Event("is_valid", w), Event("predicate", w),
                         Event("is_valid", lw), Event("predicate", lw)>>
                  ELSE <<Event("is_valid", w), Event("predicate", w),
                         Event("is_valid", lw), Event("predicate", lw),
                         Event("is_compound_word", w)>>

\* A Titlecase word that is valid only as a compound word was validated
C8_Witness ==
    /\ TestDone
    /\ WordCasing(retWord) = "Titlecase"
    /\ ret = "true"
    /\ ~ContainedInGlobalWordList(retWord)
    /\ ~ContainedInGlobalWordList(Lowercase(retWord))

\* C9: an AllLowercase word is valid iff it is in the dictionary; is_valid calls
\* the predicate on it and nothing else.
C9_LowercaseValidity ==
    /\ Returned /\ WordCasing(retWord) = "AllLowercase"
         => ret = B(ContainedInGlobalWordList(retWord))
    /\ TestDone /\ WordCasing(retWord) = "AllLowercase"
         => calls = <<Event("is_valid", retWord), Event("predicate", retWord)>>

\* A lowercase word that would be a compound word was found invalid
C9_Witness ==
    /\ TestDone
    /\ WordCasing(retWord) = "AllLowercase"
    /\ ret = "false"
    /\ IsCompoundWord(retWord)

\* C10: whenever is_valid titlecases an AllUppercase or Mixed word, the result
\* classifies as Titlecase, and the value of the call is the value of is_valid
\* on the titlecased form.
C10_TitlecasedIsTitlecase ==
    /\ \A i \in 1..Len(stack) :
           stack[i].phase = "title"
               => WordCasing(Titlecase(stack[i].w)) = "Titlecase"
    /\ Returned /\ WordCasing(retWord) \in {"AllUppercase", "Mixed"}
         => ret = B(IsValid(Titlecase(retWord)))


\* C11: a word whose casing cannot be classified (the empty word, a word with a
\* character that is no letter) is invalid; is_valid neither calls the predicate
\* nor itself for it; substitute never emits such a candidate.
C11_UnclassifiedInvalid ==
    /\ Returned /\ WordCasing(retWord) = "Err" => ret = "false"
    /\ TestDone /\ WordCasing(retWord) = "Err"
         => calls = <<Event("is_valid", retWord)>>
    /\ pc = "valid" /\ ret = "none" /\ stack # <<>> /\ WordCasing(Top.w) = "Err"
         => Top.phase = "call"
    /\ WordEmitted /\ emitted # word => WordCasing(emitted) # "Err"

\* A word with letters and a '!' in it was found invalid
C11_Witness ==
    /\ TestDone
    /\ ret = "false"
    /\ Len(retWord) >= 2
    /\ \E i \in 1..Len(retWord) : retWord[i] \in Letters
    /\ \E i \in 1..Len(retWord) : retWord[i] \notin Letters

\* The parts of `w` between the cut points `cuts` (a cut at i splits after w[i])
Parts(w, cuts) ==
    LET bounds == cuts \cup {0, Len(w)}
    IN  {SubSeq(w, a + 1, b) : <<a, b>> \in
            {x \in bounds \X bounds :
                x[1] < x[2] /\ ~\E c \in bounds : x[1] < c /\ c < x[2]}}

\* `w` can be cut into at least 2 non-empty contiguous parts, the first a
\* dictionary word as it stands (titlecase) or lowercased, every later one a
\* dictionary word as it stands (lowercase)
HasDecomposition(w) ==
    \E cuts \in SUBSET (1..(Len(w) - 1)) :
        /\ cuts # {}
        /\ LET c1 == CHOOSE c \in cuts : \A d \in cuts : c <= d
               first == SubSeq(w, 1, c1)
               later == SubSeq(w, c1 + 1, Len(w))
           IN  /\ first \in dict \/ Lowercase(first) \in dict
               /\ \A part \in Parts(later, {c - c1 : c \in cuts \ {c1}}) :
                      part \in dict

\* C12: the compound decomposition of a word succeeds iff the word can be split
\* into at least 2 contiguous non-empty parts, the first valid as titlecase or as
\* lowercase and every later one valid as lowercase.
C12_CompoundDecomposition ==
    Returned /\ calls # <<>> /\ calls[Len(calls)] = Event("is_compound_word", retWord)
        => ret = B(HasDecomposition(retWord))

\* A word that splits into three valid parts and into no two was found valid
C12_Witness ==
    /\ TestDone
    /\ calls # <<>> /\ calls[Len(calls)] = Event("is_compound_word", retWord)
    /\ ret = "true"
    /\ Len(retWord) = 3
    /\ \A i \in 1..2 :
          ~(/\ SubSeq(retWord, 1, i) \in dict \/ Lowercase(SubSeq(retWord, 1, i)) \in dict
            /\ SubSeq(retWord, i + 1, 3) \in dict)


\* The non-empty contiguous pieces of `w`
Infixes(w) == {SubSeq(w, a, b) : <<a, b>> \in {x \in (1..Len(w)) \X (1..Len(w)) : x[1] <= x[2]}}

\* C13: the lookup in the sorted, duplicate-free, newline-delimited word list
\* with lines of unequal length finds every line of the list, the first and the
\* last included, and finds no text that is not a line, also when that text is a
\* prefix, a suffix or an infix of a line or holds a line as one.
C13_DictionaryLookup ==
    TestDone =>
        /\ \A line \in dict : ContainedInGlobalWordList(line)
        /\ \A x \in Infixes(retWord) : ContainedInGlobalWordList(x) <=> x \in dict
        /\ \A line \in dict : \A x \in Infixes(line) :
               ContainedInGlobalWordList(x) <=> x \in dict

\* A word that is a proper prefix of a line, and no line, was looked up
C13_Witness ==
    /\ TestDone
    /\ retWord # <<>> /\ retWord \notin dict
    /\ \E line \in dict :
          Len(line) > Len(retWord) /\ SubSeq(line, 1, Len(retWord)) = retWord
    /\ Event("predicate", retWord) \in {calls[i] : i \in 1..Len(calls)}
    /\ ret = "false"

----------------------------------------------------------------------------
(* Properties of the cache.                                                  *)

\* C14: substitute is a function of its input for a fixed dictionary: the calls
\* of one process that got the same input returned the same output, whatever
\* the cache held or had lost when they began; every entry of the cache, and so
\* every value a hit returns, is the value the body of is_valid computes for
\* the word when no cache answers.
C14_PureWithCache ==
    /\ \A i \in 1..Len(history) : \A j \in 1..Len(history) :
           history[i].input = history[j].input
               => history[i].output = history[j].output
    /\ \A i \in 1..Len(cache) : cache[i].val = B(IsValid(cache[i].key))
    /\ caller = "substitute" /\ pc = "valid" /\ ret # "none"
           => ret = B(IsValid(retWord))

\* In a repeated call the second candidate of a word, a lowercase one, was
\* answered by the cache without a dictionary lookup
C14_Witness ==
    /\ caller = "substitute" /\ pc = "valid" /\ stack = <<>>
    /\ Len(history) = 1 /\ history[1].input = input
    /\ history[1].output # input
    /\ ret = "true"
    /\ WordCasing(retWord) = "AllLowercase"
    /\ calls = <<Event("is_valid", retWord)>>
    /\ Len(tested) >= 2

\* The cache filled up to its capacity with entries for other words
Filled ==
    cache \o [i \in 1..(CacheCapacity - Len(cache)) |->
                  [key |-> <<"other", ToString(i)>>, val |-> "false"]]

\* C15: is_valid is memoized under its exact argument. The call that has just
\* returned, hit or miss, recursive or not, left its argument and value as the
\* most recently used entry; no two entries have the same key; every word
\* is_valid was called on during a call has an entry of its own, so a word, its
\* titlecased form and its lowercased form have three; the cache holds at most
\* CacheCapacity entries, and a store into the full cache evicts its last entry.
C15_MemoizedByArgument ==
    /\ pc = "valid" /\ ret # "none"
           => cache # <<>> /\ cache[1] = [key |-> retWord, val |-> ret]
    /\ \A i \in 1..Len(cache) : \A j \in 1..Len(cache) :
           cache[i].key = cache[j].key => i = j
    /\ Len(cache) <= CacheCapacity
    /\ TestDone
           => /\ \A i \in 1..Len(calls) :
                     calls[i].op = "is_valid" => CacheIndex(cache, calls[i].w) # 0
              /\ \A key \in {retWord, <<INDICATOR>>} :
                     LET stored == CacheSet(Filled, key, ret)
                     IN  /\ Len(stored) = CacheCapacity
                         /\ stored[1] = [key |-> key, val |-> ret]
                         /\ key = <<INDICATOR>>
                                => SubSeq(stored, 2, CacheCapacity)
                                       = SubSeq(Filled, 1, CacheCapacity - 1)

\* An uppercase word was answered through its titlecased and its lowercased
\* form: the three have an entry each
C15_Witness ==
    /\ TestDone
    /\ WordCasing(retWord) = "AllUppercase"
    /\ Len(retWord) >= 2
    /\ Titlecase(retWord) # Lowercase(retWord)
    /\ CacheIndex(cache, retWord) = 1
    /\ CacheIndex(cache, Titlecase(retWord)) = 2
    /\ CacheIndex(cache, Lowercase(retWord)) = 3
    /\ Len(cache) = 3

\* Thread t is inside a cache access: between taking the Mutex and the end of
\* its cache_get or cache_set
Accessing(t) == threads[t].stack # <<>> /\ ThreadTop(t).phase \in {"get", "store"}

\* C16: when is_valid runs on several threads, no two threads are inside a
\* cache access at once and the thread inside one holds the Mutex; every entry
\* of the shared cache and every result a thread got are the values the body of
\* is_valid computes for the word when it runs alone.
C16_CacheAccessExclusive ==
    /\ \A t \in DOMAIN threads : \A u \in DOMAIN threads :
           Accessing(t) /\ Accessing(u) => t = u
    /\ \A t \in DOMAIN threads : Accessing(t) <=> lock = t
    /\ \A t \in DOMAIN threads :
           threads[t].result \in {"true", "false"}
               => threads[t].result = B(IsValid(threads[t].arg))
    /\ \A i \in 1..Len(cache) : cache[i].val = B(IsValid(cache[i].key))

\* A thread stores the result of a recursive call while the other thread, which
\* works on the same word, waits for the Mutex
C16_Witness ==
    /\ caller = "threads"
    /\ threads["t1"].arg = threads["t2"].arg
    /\ lock = "t1"
    /\ ThreadTop("t1").phase = "store"
    /\ Len(threads["t1"].stack) >= 2
    /\ threads["t2"].stack # <<>>
    /\ ThreadTop("t2").phase \in {"call", "set"}

----------------------------------------------------------------------------
(* Properties of the search and of the loop.                                 *)

\* The members of `rs` at the indices in S, in their order in `rs`
Picked(rs, S) ==
    LET F[i \in 0..Len(rs)] ==
            IF i = 0 THEN <<>>
            ELSE IF i \in S THEN Append(F[i - 1], rs[i]) ELSE F[i - 1]
    IN  F[Len(rs)]

\* The spellings of the current word, one for each non-empty set of its
\* replacement opportunities
Spellings ==
    {ApplyReplacements(word, Picked(replacements, S)) :
         S \in (SUBSET (1..Len(replacements))) \ {{}}}

\* C17: for a word with n replacement opportunities the non-empty sets of
\* opportunities give 2^n - 1 different spellings; the candidates handed to
\* is_valid are among them, no spelling is handed over twice, and the word
\* itself never is; when the word is emitted unmodified, all 2^n - 1 spellings
\* were tested and found invalid and is_valid was not asked about the word.
C17_CandidatesAreNonEmptySubsets ==
    caller = "substitute" /\ pc \in {"loop", "search", "valid"} /\ transition = "Exited"
        => /\ Cardinality(Spellings) = Pow2(Len(replacements)) - 1
           /\ \A i \in 1..Len(tested) : tested[i] \in Spellings /\ tested[i] # word
           /\ \A i \in 1..Len(tested) : \A j \in 1..Len(tested) :
                  tested[i] = tested[j] => i = j
           /\ pc = "valid" /\ calls # <<>>
                  => calls[1] = Event("is_valid", tested[Len(tested)])
           /\ pc = "loop" /\ emitted = word
                  => /\ {tested[i] : i \in 1..Len(tested)} = Spellings
                     /\ Len(tested) = Pow2(Len(replacements)) - 1
                     /\ \A i \in 1..Len(tested) : ~IsValid(tested[i])

\* A word with three opportunities was emitted unmodified after seven candidates
C17_Witness ==
    /\ WordEmitted
    /\ Len(replacements) = 3
    /\ Len(tested) = 7
    /\ emitted = word

\* The maximal runs of letters of a text, in order; `run` is the run in progress
RECURSIVE WordsFrom(_, _)
WordsFrom(s, run) ==
    LET closed == IF run = <<>> THEN <<>> ELSE <<run>>
    IN  IF s = <<>> THEN closed
        ELSE IF s[1] \in Letters THEN WordsFrom(Tail(s), Append(run, s[1]))
        ELSE closed \o WordsFrom(Tail(s), <<>>)

Words(s) == WordsFrom(s, <<>>)

\* The items of the loop whose transition has been made
Consumed ==
    SubSeq(Chain, 1, CASE pc = "loop" -> pos - 1
                       [] pc = "done" -> Len(Chain)
                       [] OTHER -> pos)

\* The maximal runs of letters of a text that a non-letter follows
ClosedWords(s) ==
    IF s # <<>> /\ s[Len(s)] \in Letters
    THEN SubSeq(Words(s), 1, Len(Words(s)) - 1)
    ELSE Words(s)

\* C18: substitute reads the machine's word only right after an Exited
\* transition: while find_valid_replacement runs the last transition is Exited,
\* the machine is outside and the word read last is the machine's; the words
\* read so far are the maximal runs of letters closed so far, one read each, in
\* input order, none after an Entered, Internal or External transition; the
\* text emitted for a word is the word of the output at the same rank; and the
\* call returns with the words of the input read once each and as many words
\* in the output.
C18_WordReadOnlyAfterExited ==
    /\ caller = "substitute" /\ pc \in {"search", "valid"}
           => /\ transition = "Exited" /\ state = "Outside"
              /\ reads # <<>> /\ reads[Len(reads)] = word
    /\ caller = "substitute" /\ pc \in {"loop", "search", "valid", "done"}
           => reads = ClosedWords(Consumed)
    /\ WordEmitted
           => /\ Len(Words(output)) = Len(reads)
              /\ Words(output)[Len(reads)] = emitted
    /\ SubstituteDone
           => reads = Words(input) /\ Len(Words(output)) = Len(reads)

\* A text of two words, the first of which was replaced, has been returned
C18_Witness ==
    /\ SubstituteDone
    /\ Len(reads) = 2
    /\ Len(reads[1]) >= 2
    /\ Words(output)[1] # reads[1]
    /\ Words(output)[2] = reads[2]

\* C19: in every chain of is_valid calls an AllUppercase or Mixed word calls
\* is_valid once, on a Titlecase word; a Titlecase word calls it on its
\* lowercased form, an AllLowercase word that calls it no further; so a chain
\* has at most three calls, the number of calls inside the outermost one is at
\* most the length of its word, and no two calls of a chain have the same
\* argument.
C19_BoundedRecursion ==
    /\ \A i \in 1..(Len(stack) - 1) :
           /\ stack[i].phase = "title"
                  => /\ WordCasing(stack[i].w) \in {"AllUppercase", "Mixed"}
                     /\ WordCasing(stack[i + 1].w) = "Titlecase"
           /\ stack[i].phase = "lower"
                  => /\ WordCasing(stack[i].w) = "Titlecase"
                     /\ WordCasing(stack[i + 1].w) = "AllLowercase"
                     /\ i + 1 = Len(stack)
    /\ Len(stack) <= 3
    /\ stack # <<>> => Len(stack) - 1 <= Len(stack[1].w)
    /\ \A i \in 1..Len(stack) : \A j \in 1..Len(stack) :
           stack[i].w = stack[j].w => i = j

====
